---- MODULE Spec2Model ----
(***************************************************************************)
(* Model of the financial calculators of the portfolio site:               *)
(*   js/apps/formulas.js  Formulas.calculatePPh21, Formulas.calculateKPR,  *)
(*                        Formulas.calculateFreelanceRate                  *)
(*   calculator controller  the calculateAndUpdate handlers                *)
(*   charts module        ChartsModule.updatePPhChart, updateKPRChart      *)
(* and of the page chrome:                                                 *)
(*   js/theme-toggle.js   the theme controller ('dark' on html)            *)
(*   js/skeleton-loader.js  showSkeleton, hideSkeleton and the second      *)
(*                        theme controller ('light-theme' on body)         *)
(*                                                                         *)
(* A JavaScript number is an IEEE 754 double.  The model keeps that: a     *)
(* number is [neg, m, e] with value m * 2^e and a 53-bit mantissa m, and   *)
(* every operation rounds its exact result to the nearest double, ties to  *)
(* even.  Mantissas (and the exact values the properties compare with) are *)
(* arbitrary-size naturals, sequences of 15-bit limbs.  Infinity, NaN,     *)
(* subnormals and -0 are left out: no input of the model produces them.    *)
(***************************************************************************)
EXTENDS Integers, Naturals, Sequences, FiniteSets, TLC

VARIABLES
  app,            \* which part of the site this run drives: "pph", "kpr", ...
  pc,             \* position of the run: "input", "computed", "charted"
  pphArgs,        \* arguments of calculatePPh21: [grossIncome, ptkp]
  pphResult,      \* object returned by calculatePPh21
  chartsPph,      \* ChartsModule.charts.pph exists
  pphChartData,   \* ChartsModule.charts.pph.data.datasets[0].data
  kprArgs,        \* arguments of calculateKPR
  powUlps,        \* how far this engine's Math.pow is from the nearest double
  kprResult,      \* object returned by calculateKPR
  chartsKpr,      \* ChartsModule.charts.kpr exists
  kprChartData,   \* ChartsModule.charts.kpr.data.datasets[0].data
  flArgs,         \* arguments of calculateFreelanceRate
  flResult,       \* object returned by calculateFreelanceRate
  heap,           \* the arrays and objects the engine has allocated, in order
  callLog,        \* the engine calls made so far: function, arguments, returned object
  fieldValue,     \* value of each input field, a string (sequence of characters)
  textContent,    \* textContent of each result element
  chartsFl,       \* ChartsModule.charts.freelance exists
  flChartData,    \* ChartsModule.charts.freelance.data.datasets[0].data
  storedTheme,    \* localStorage['portfolio-theme']: "none" for null, "light", "dark"
  htmlDark,       \* document.documentElement has the class 'dark'
  bodyLight,      \* document.body has the class 'light-theme'
  prefersLight,   \* matchMedia('(prefers-color-scheme: light)').matches
  listeners,      \* the theme scripts of the page, in the order they were loaded
  themeLog,       \* the events the page has seen: clicks, system changes, reloads
  container,      \* a container element: [contentLoading, loaded, overlays]
  timers,         \* the hideSkeleton timers that have not fired yet
  skeletonLog     \* the calls of showSkeleton and hideSkeleton on the container

\* the variables of the parts of the site other than the tax and mortgage calculators
pageVars == <<storedTheme, htmlDark, bodyLight, prefersLight, listeners, themeLog,
              container, timers, skeletonLog>>

laterVars == <<flArgs, flResult, heap, callLog, fieldValue, textContent, chartsFl,
               flChartData, pageVars>>

vars == <<app, pc, pphArgs, pphResult, chartsPph, pphChartData,
          kprArgs, powUlps, kprResult, chartsKpr, kprChartData, laterVars>>

(***************************************************************************)
(* Arbitrary-size naturals: sequences of limbs in 0..Base-1, least         *)
(* significant first, without leading zero limbs (zero is <<>>).           *)
(***************************************************************************)
LimbBits == 15

Base == 2 ^ LimbBits

\* the largest member of a nonempty finite set of integers
SetMax(S) == CHOOSE x \in S : \A y \in S : y <= x

\* s without its leading zero limbs
BigNorm(s) ==
  IF s = <<>> THEN <<>>
  ELSE LET used == {i \in 1..Len(s) : s[i] # 0}
       IN  IF used = {} THEN <<>> ELSE SubSeq(s, 1, SetMax(used))

\* the natural 0 <= n < 2^31
BigFromInt(n) == BigNorm(<<n % Base, (n \div Base) % Base, n \div (Base * Base)>>)

\* limb i of a, zero above its length
BigLimb(a, i) == IF i <= Len(a) THEN a[i] ELSE 0

\* -1, 0, 1 as a is below, equal to, above b
BigCmp(a, b) ==
  IF Len(a) < Len(b) THEN -1
  ELSE IF Len(a) > Len(b) THEN 1
  ELSE LET differ == {i \in 1..Len(a) : a[i] # b[i]}
       IN  IF differ = {} THEN 0
           ELSE IF a[SetMax(differ)] < b[SetMax(differ)] THEN -1 ELSE 1

\* the carry into limb i of a + b: the highest limb below i whose sum cannot pass
\* a carry on makes one itself
BigCarry(a, b, i) ==
  LET stop == {j \in 1..(i - 1) : BigLimb(a, j) + BigLimb(b, j) # Base - 1}
  IN  IF stop = {} THEN 0
      ELSE IF BigLimb(a, SetMax(stop)) + BigLimb(b, SetMax(stop)) >= Base THEN 1 ELSE 0

BigAdd(a, b) ==
  IF a = <<>> THEN b
  ELSE IF b = <<>> THEN a
  ELSE BigNorm([i \in 1..((IF Len(a) > Len(b) THEN Len(a) ELSE Len(b)) + 1) |->
                  (BigLimb(a, i) + BigLimb(b, i) + BigCarry(a, b, i)) % Base])

\* the borrow from limb i of a - b: the highest limb below i where a and b differ
\* has the smaller limb in a
BigBorrow(a, b, i) ==
  LET stop == {j \in 1..(i - 1) : a[j] # BigLimb(b, j)}
  IN  IF stop = {} THEN 0
      ELSE IF a[SetMax(stop)] < BigLimb(b, SetMax(stop)) THEN 1 ELSE 0

\* a - b for a >= b
BigSub(a, b) ==
  IF b = <<>> THEN a
  ELSE BigNorm([i \in 1..Len(a) |-> (a[i] - BigLimb(b, i) - BigBorrow(a, b, i)) % Base])

\* n zero limbs
BigZeros(n) == [i \in 1..n |-> 0]

\* a * k for an integer 0 <= k < Base: the low halves of the limb products plus
\* their high halves one limb up
BigMulSmall(a, k) ==
  IF a = <<>> \/ k = 0 THEN <<>>
  ELSE BigAdd(BigNorm([i \in 1..Len(a) |-> (a[i] * k) % Base]),
              BigNorm([i \in 1..(Len(a) + 1) |->
                         IF i = 1 THEN 0 ELSE (a[i - 1] * k) \div Base]))

\* a * b, halving b down to single limbs
RECURSIVE BigMulBy(_, _)
BigMulBy(a, b) ==
  IF a = <<>> \/ b = <<>> THEN <<>>
  ELSE IF Len(b) = 1 THEN BigMulSmall(a, b[1])
  ELSE BigAdd(BigMulBy(a, BigNorm(SubSeq(b, 1, Len(b) \div 2))),
              BigNorm(BigZeros(Len(b) \div 2)
                        \o BigMulBy(a, SubSeq(b, Len(b) \div 2 + 1, Len(b)))))

BigMul(a, b) == IF Len(a) < Len(b) THEN BigMulBy(b, a) ELSE BigMulBy(a, b)

RECURSIVE BigPow(_, _)
BigPow(a, n) ==
  IF n = 0 THEN <<1>>
  ELSE IF n = 1 THEN a
  ELSE BigMul(BigPow(a, n \div 2), BigPow(a, n - n \div 2))

\* a * 2^k
BigShl(a, k) ==
  BigNorm(BigZeros(k \div LimbBits)
            \o [i \in 1..(Len(a) + 1) |->
                  ((BigLimb(a, i) * 2 ^ (k % LimbBits)) % Base)
                  + (IF i = 1 THEN 0 ELSE (a[i - 1] * 2 ^ (k % LimbBits)) \div Base)])

\* a div 2^k
BigShr(a, k) ==
  BigNorm([i \in 1..(Len(a) - k \div LimbBits) |->
             (BigLimb(a, i + k \div LimbBits) \div 2 ^ (k % LimbBits))
             + (BigLimb(a, i + k \div LimbBits + 1) % 2 ^ (k % LimbBits))
               * 2 ^ (LimbBits - (k % LimbBits))])

\* the number of binary digits of 0 <= n < Base
IntBitLen(n) == CHOOSE k \in 0..LimbBits : n < 2 ^ k /\ (k = 0 \/ n >= 2 ^ (k - 1))

\* the number of binary digits of a
BigBitLen(a) ==
  IF a = <<>> THEN 0 ELSE LimbBits * (Len(a) - 1) + IntBitLen(a[Len(a)])

BigIsOdd(a) == a # <<>> /\ a[1] % 2 = 1

\* the two limbs of cur that lie over the top limb of b, as an integer
BigTop(b, cur) == BigLimb(cur, Len(b) + 1) * Base + BigLimb(cur, Len(b))

\* cur div b for cur < b * Base: the digit lies between the quotients of cur's top
\* limbs by b's top limb plus one and by b's top limb
BigQuotDigit(b, cur) ==
  LET lo == BigTop(b, cur) \div (b[Len(b)] + 1)
      hi == IF BigTop(b, cur) \div b[Len(b)] < Base
            THEN BigTop(b, cur) \div b[Len(b)] ELSE Base - 1
  IN  CHOOSE d \in lo..hi :
        /\ BigCmp(BigMulSmall(b, d), cur) <= 0
        /\ (d = hi \/ BigCmp(BigMulSmall(b, d + 1), cur) > 0)

\* long division from limb i of a downwards: q holds the quotient's limbs above
\* i and r < b the remainder of the limbs above i
RECURSIVE BigDivModAt(_, _, _, _, _)
BigDivModAt(a, b, i, q, r) ==
  IF i = 0 THEN [q |-> BigNorm(q), r |-> r]
  ELSE IF r = <<>> /\ a[i] = 0 THEN BigDivModAt(a, b, i - 1, <<0>> \o q, r)
  ELSE LET cur == BigNorm(<<a[i]>> \o r)
           d   == BigQuotDigit(b, cur)
       IN  BigDivModAt(a, b, i - 1, <<d>> \o q, BigSub(cur, BigMulSmall(b, d)))

\* [q |-> a div b, r |-> a mod b] for b # 0: the limbs of a that b's length
\* reaches over are below b and start the remainder
BigDivMod(a, b) ==
  IF Len(a) < Len(b) THEN [q |-> <<>>, r |-> a]
  ELSE BigDivModAt(a, b, Len(a) - Len(b) + 1, <<>>,
                   SubSeq(a, Len(a) - Len(b) + 2, Len(a)))

\* the small natural a holds, for a < Base * Base
BigToInt(a) == BigLimb(a, 1) + Base * BigLimb(a, 2)

(***************************************************************************)
(* Doubles: [neg, m, e] is (-1)^neg * m * 2^e with 2^52 <= m < 2^53, and   *)
(* zero is [FALSE, <<>>, 0]; equal numbers are equal records.              *)
(***************************************************************************)
MantissaBits == 53

FZero == [neg |-> FALSE, m |-> <<>>, e |-> 0]

\* the double nearest to (-1)^neg * (n + s) * 2^e, ties to even, where s is some
\* value in (0, 1) when sticky and 0 otherwise (with sticky, n has over 54 bits);
\* exact tells whether nothing was rounded away
\* the rounded mantissa q1 times 2^e: rounding up may have carried q1 to
\* 2^MantissaBits, which is halved
FRoundCarry(neg, q1, e, exact) ==
  [val   |-> IF BigBitLen(q1) > MantissaBits
             THEN [neg |-> neg, m |-> BigShr(q1, 1), e |-> e + 1]
             ELSE [neg |-> neg, m |-> q1, e |-> e],
   exact |-> exact]

\* q and the remainder r of n by 2^k: up when r is over half, or is half and
\* something sticks or q is odd
FRoundRemainder(neg, q, r, half, e, sticky) ==
  FRoundCarry(neg,
              IF BigCmp(r, half) > 0
                 \/ (BigCmp(r, half) = 0 /\ (sticky \/ BigIsOdd(q)))
              THEN BigAdd(q, <<1>>) ELSE q,
              e, r = <<>> /\ ~sticky)

\* n has k binary digits too many and q are its leading MantissaBits ones
FRoundShifted(neg, n, k, q, e, sticky) ==
  FRoundRemainder(neg, q, BigSub(n, BigShl(q, k)), BigShl(<<1>>, k - 1), e + k, sticky)

FRoundInfo(neg, n, e, sticky) ==
  IF n = <<>> THEN [val |-> FZero, exact |-> TRUE]
  ELSE IF BigBitLen(n) <= MantissaBits
  THEN [val   |-> [neg |-> neg, m |-> BigShl(n, MantissaBits - BigBitLen(n)),
                   e |-> e - (MantissaBits - BigBitLen(n))],
        exact |-> ~sticky]
  ELSE FRoundShifted(neg, n, BigBitLen(n) - MantissaBits,
                     BigShr(n, BigBitLen(n) - MantissaBits), e, sticky)

FRound(neg, n, e) == FRoundInfo(neg, n, e, FALSE).val

\* the double of an integer
F(i) == IF i < 0 THEN FRound(TRUE, BigFromInt(0 - i), 0) ELSE FRound(FALSE, BigFromInt(i), 0)

FNeg(x) == IF x.m = <<>> THEN x ELSE [x EXCEPT !.neg = ~x.neg]

FIsPositive(x) == x.m # <<>> /\ ~x.neg

\* -1, 0, 1 as |x| is below, equal to, above |y|
FCmpMagnitude(x, y) ==
  IF x.m = <<>> THEN (IF y.m = <<>> THEN 0 ELSE -1)
  ELSE IF y.m = <<>> THEN 1
  ELSE IF x.e < y.e THEN -1
  ELSE IF x.e > y.e THEN 1
  ELSE BigCmp(x.m, y.m)

\* x < y
FLess(x, y) ==
  IF x.neg /\ ~y.neg THEN TRUE
  ELSE IF ~x.neg /\ y.neg THEN FALSE
  ELSE IF x.neg THEN FCmpMagnitude(x, y) > 0
  ELSE FCmpMagnitude(x, y) < 0

FMax(x, y) == IF FLess(x, y) THEN y ELSE x

FMin(x, y) == IF FLess(y, x) THEN y ELSE x

FAdd(x, y) ==
  IF x.m = <<>> THEN y
  ELSE IF y.m = <<>> THEN x
  ELSE LET e0 == IF x.e < y.e THEN x.e ELSE y.e
           a  == BigShl(x.m, x.e - e0)
           b  == BigShl(y.m, y.e - e0)
       IN  IF x.neg = y.neg THEN FRound(x.neg, BigAdd(a, b), e0)
           ELSE IF BigCmp(a, b) >= 0 THEN FRound(x.neg, BigSub(a, b), e0)
           ELSE FRound(y.neg, BigSub(b, a), e0)

FSub(x, y) == FAdd(x, FNeg(y))

FMul(x, y) ==
  IF x.m = <<>> \/ y.m = <<>> THEN FZero
  ELSE FRound(x.neg # y.neg, BigMul(x.m, y.m), x.e + y.e)

\* the shift that fills the top limb of a mantissa, which keeps the estimates
\* of BigQuotDigit within two of the digit
DivisorShift == (LimbBits - (MantissaBits % LimbBits)) % LimbBits

\* x / y for y # 0: the quotient of the mantissas to three more bits than a
\* double holds, and whether anything is left
FDiv(x, y) ==
  IF x.m = <<>> THEN FZero
  ELSE LET d == BigDivMod(BigShl(x.m, MantissaBits + 3 + DivisorShift),
                          BigShl(y.m, DivisorShift))
       IN  FRoundInfo(x.neg # y.neg, d.q, x.e - y.e - (MantissaBits + 3), d.r # <<>>).val

\* the double k units in the last place above |x| (below for k < 0), x # 0
RECURSIVE FNudge(_, _)
FNudge(x, k) ==
  IF k = 0 THEN x
  ELSE IF k > 0 THEN FNudge(FRound(x.neg, BigAdd(x.m, <<1>>), x.e), k - 1)
  ELSE IF BigBitLen(BigSub(x.m, <<1>>)) < MantissaBits
       THEN FNudge(FRound(x.neg, BigSub(BigShl(x.m, 1), <<1>>), x.e - 1), k + 1)
       ELSE FNudge(FRound(x.neg, BigSub(x.m, <<1>>), x.e), k + 1)

\* Math.pow(x, n) for an integer n >= 0.  ECMA-262 leaves Math.pow
\* implementation-approximated: an exact power is returned as it is, any other
\* lies ulps units in the last place from the nearest double
\*
\* The power is computed on intervals lo * 2^e <= v <= hi * 2^e that keep PowBits
\* binary digits.  The base enters without its trailing zero bits, so an interval
\* that had to drop digits holds an odd number of more than PowBits digits, which
\* is no double; if both ends of the interval round to one double, that is the
\* nearest one, else the power is computed in full.
PowBits == 128

\* the number of zero bits below the lowest one bit of a # 0
BigLowBit(a) ==
  LET i == CHOOSE j \in 1..Len(a) : a[j] # 0 /\ \A k \in 1..(j - 1) : a[k] = 0
  IN  LimbBits * (i - 1)
      + (CHOOSE k \in 0..(LimbBits - 1) : a[i] % 2 ^ k = 0 /\ a[i] % 2 ^ (k + 1) # 0)

\* the interval with the digits beyond PowBits dropped
PowTrunc(lo, hi, e, exact) ==
  IF BigBitLen(hi) <= PowBits THEN [lo |-> lo, hi |-> hi, e |-> e, exact |-> exact]
  ELSE [lo    |-> BigShr(lo, BigBitLen(hi) - PowBits),
        hi    |-> BigAdd(BigShr(hi, BigBitLen(hi) - PowBits), <<1>>),
        e     |-> e + (BigBitLen(hi) - PowBits),
        exact |-> FALSE]

\* In the operators below a value that is used more than once is bound by a
\* quantifier over a one-element set, so that it is computed once.
PowMul(a, b) ==
  CHOOSE r \in { PowTrunc(lo, hi, a.e + b.e, a.exact /\ b.exact) :
                   lo \in {BigMul(a.lo, b.lo)}, hi \in {BigMul(a.hi, b.hi)} } : TRUE

\* a^r for r in 0..3
PowSmall(a, r) ==
  IF r = 0 THEN [lo |-> <<1>>, hi |-> <<1>>, e |-> 0, exact |-> TRUE]
  ELSE IF r = 1 THEN a
  ELSE IF r = 2 THEN PowMul(a, a)
  ELSE CHOOSE r3 \in { PowMul(a, a2) : a2 \in {PowMul(a, a)} } : TRUE

\* a^n from h = a^(n div 4)
PowNext(a, n, h) ==
  CHOOSE r \in { PowMul(ar, h4) : ar \in {PowSmall(a, n % 4)},
                                  h4 \in { PowMul(h2, h2) : h2 \in {PowMul(h, h)} } } : TRUE

\* a^n, two binary digits of n at a time
RECURSIVE PowInterval(_, _)
PowInterval(a, n) ==
  IF n < 4 THEN PowSmall(a, n)
  ELSE CHOOSE r \in { PowNext(a, n, h) : h \in {PowInterval(a, n \div 4)} } : TRUE

\* |x| as an interval, without the trailing zero bits of its mantissa
PowBase(x) ==
  [lo    |-> BigShr(x.m, BigLowBit(x.m)),
   hi    |-> BigShr(x.m, BigLowBit(x.m)),
   e     |-> x.e + BigLowBit(x.m),
   exact |-> TRUE]

\* the double nearest to x^n, which lies in the interval v, and whether it is x^n
PowRound(neg, v, x, n) ==
  IF v.exact THEN FRoundInfo(neg, v.lo, v.e, FALSE)
  ELSE IF FRoundInfo(neg, v.lo, v.e, TRUE).val
            = FRoundInfo(neg, BigSub(v.hi, <<1>>), v.e, TRUE).val
       THEN [val |-> FRoundInfo(neg, v.lo, v.e, TRUE).val, exact |-> FALSE]
       ELSE FRoundInfo(neg, BigPow(x.m, n), x.e * n, FALSE)

MathPow(x, n, ulps) ==
  IF x.m = <<>> THEN (IF n = 0 THEN F(1) ELSE FZero)
  ELSE CHOOSE y \in { IF r.exact THEN r.val ELSE FNudge(r.val, ulps) :
                        r \in { PowRound(x.neg /\ n % 2 = 1, v, x, n) :
                                  v \in { PowInterval(a, n) : a \in {PowBase(x)} } } } : TRUE

\* the integer an integral double holds, for |x| < 2^30
FToInt(x) ==
  LET n == BigToInt(IF x.e >= 0 THEN BigShl(x.m, x.e) ELSE BigShr(x.m, 0 - x.e))
  IN  IF x.neg THEN 0 - n ELSE n

\* floor(|x| * scale + 1/2) and whether |x| * scale + 1/2 is an integer
FHalfUp(x, scale) ==
  LET n == BigMulSmall(x.m, scale)
  IN  IF x.e >= 0 THEN [q |-> BigShl(n, x.e), tie |-> FALSE]
      ELSE LET k == 0 - x.e
               t == BigAdd(n, BigShl(<<1>>, k - 1))
               q == BigShr(t, k)
           IN  [q |-> q, tie |-> BigShl(q, k) = t]

\* Math.round: the nearest integer, halves towards +infinity
MathRound(x) ==
  LET h == FHalfUp(x, 1)
  IN  IF x.neg /\ h.tie THEN FRound(TRUE, BigSub(h.q, <<1>>), 0)
      ELSE FRound(x.neg, h.q, 0)

\* the value a JavaScript expression yields here: the number 0, or the string
\* x.toFixed(digits), held as its sign and the natural fixed = |x| * 10^digits rounded
NumberZero == [type |-> "number", minus |-> FALSE, fixed |-> <<>>, digits |-> 0]

\* Number.prototype.toFixed for digits in 0..2: halves of |x| round up
ToFixed(x, digits) ==
  [type   |-> "string",
   minus  |-> x.neg,
   fixed  |-> FHalfUp(x, 10 ^ digits).q,
   digits |-> digits]

(***************************************************************************)
(* Formulas.calculatePPh21                                                 *)
(***************************************************************************)
\* the literals 0.05, 0.15, 0.25, 0.30, 0.35: the doubles nearest to them
Rate05 == FDiv(F(5), F(100))

Rate15 == FDiv(F(15), F(100))

Rate25 == FDiv(F(25), F(100))

Rate30 == FDiv(F(30), F(100))

Rate35 == FDiv(F(35), F(100))

\* the literals 60000000, 190000000, 250000000
Width1 == F(60000000)

Width2 == F(190000000)

Width3 == F(250000000)

\* the literal 4500000000
Width4 == FMul(F(4500), F(1000000))

\* PPhBracket recording the running total, not the bracket's own tax, in the entry
PPhBracketCumulativeTax(st, width, rate, label) ==
  IF FIsPositive(st.remaining)
  THEN LET taxable    == FMin(st.remaining, width)
           bracketTax == FMul(taxable, rate)
       IN  [tax       |-> FAdd(st.tax, bracketTax),
            remaining |-> FSub(st.remaining, taxable),
            brackets  |-> IF FIsPositive(taxable)
                          THEN Append(st.brackets,
                                 [rate |-> label, amount |-> taxable,
                                  tax |-> FAdd(st.tax, bracketTax)])
                          ELSE st.brackets]
  ELSE st

\* PPhBracket without Math.min: the bracket takes all that remains
PPhBracketNoCap(st, width, rate, label) ==
  IF FIsPositive(st.remaining)
  THEN LET taxable    == st.remaining
           bracketTax == FMul(taxable, rate)
       IN  [tax       |-> FAdd(st.tax, bracketTax),
            remaining |-> FSub(st.remaining, taxable),
            brackets  |-> Append(st.brackets,
                            [rate |-> label, amount |-> taxable, tax |-> bracketTax])]
  ELSE st

\* PPhBracket without its two guards: an entry is pushed whatever remains
PPhBracketAlwaysPush(st, width, rate, label) ==
  LET taxable    == FMin(st.remaining, width)
      bracketTax == FMul(taxable, rate)
  IN  [tax       |-> FAdd(st.tax, bracketTax),
       remaining |-> FSub(st.remaining, taxable),
       brackets  |-> Append(st.brackets,
                       [rate |-> label, amount |-> taxable, tax |-> bracketTax])]

\* one of the brackets 1..4: st is [tax, remaining, brackets]
PPhBracket(st, width, rate, label) ==
  IF FIsPositive(st.remaining)
  THEN LET taxable    == FMin(st.remaining, width)
           bracketTax == FMul(taxable, rate)
       IN  [tax       |-> FAdd(st.tax, bracketTax),
            remaining |-> FSub(st.remaining, taxable),
            brackets  |-> IF FIsPositive(taxable)
                          THEN Append(st.brackets,
                                 [rate |-> label, amount |-> taxable, tax |-> bracketTax])
                          ELSE st.brackets]
  ELSE st

\* bracket 5: everything that remains, at 35%
PPhLastBracket(st) ==
  IF FIsPositive(st.remaining)
  THEN LET bracketTax == FMul(st.remaining, Rate35)
       IN  [tax       |-> FAdd(st.tax, bracketTax),
            remaining |-> st.remaining,
            brackets  |-> Append(st.brackets,
                            [rate |-> "35%", amount |-> st.remaining, tax |-> bracketTax])]
  ELSE st

\* TaxableIncome without Math.max
TaxableIncomeNoClamp(gross, threshold) == FSub(gross, threshold)

\* Math.max(0, grossIncome - ptkp)
TaxableIncome(gross, threshold) == FMax(FZero, FSub(gross, threshold))

\* pkp > 0 ? ((tax / pkp) * 100).toFixed(2) : 0
EffectiveRate(tax, pkp) ==
  IF FIsPositive(pkp) THEN ToFixed(FMul(FDiv(tax, pkp), F(100)), 2) ELSE NumberZero

\* the five bracket blocks in turn, from tax = 0 and remaining = pkp
PPhBrackets(pkp) ==
  PPhLastBracket(
    PPhBracket(
      PPhBracket(
        PPhBracket(
          PPhBracket([tax |-> FZero, remaining |-> pkp, brackets |-> <<>>],
                     Width1, Rate05, "5%"),
          Width2, Rate15, "15%"),
        Width3, Rate25, "25%"),
      Width4, Rate30, "30%"))

\* PPhReturn dividing the rounded yearly tax by 12
PPhReturnMonthlyOfRounded(gross, threshold, pkp, st) ==
  [grossIncome   |-> gross,
   ptkp          |-> threshold,
   pkp           |-> pkp,
   yearlyTax     |-> MathRound(st.tax),
   monthlyTax    |-> MathRound(FDiv(MathRound(st.tax), F(12))),
   takeHome      |-> FSub(gross, st.tax),
   brackets      |-> st.brackets,
   effectiveRate |-> EffectiveRate(st.tax, pkp)]

\* the returned object, st being the state the bracket blocks leave
PPhReturn(gross, threshold, pkp, st) ==
  [grossIncome   |-> gross,
   ptkp          |-> threshold,
   pkp           |-> pkp,
   yearlyTax     |-> MathRound(st.tax),
   monthlyTax    |-> MathRound(FDiv(st.tax, F(12))),
   takeHome      |-> FSub(gross, st.tax),
   brackets      |-> st.brackets,
   effectiveRate |-> EffectiveRate(st.tax, pkp)]

PPhOfTaxable(gross, threshold, pkp) == PPhReturn(gross, threshold, pkp, PPhBrackets(pkp))

calculatePPh21(gross, threshold) ==
  PPhOfTaxable(gross, threshold, TaxableIncome(gross, threshold))

(***************************************************************************)
(* ChartsModule.updatePPhChart                                             *)
(***************************************************************************)
\* updatePPhChart drawing the gross income as the first slice
updatePPhChartGross(result) == <<result.grossIncome, result.yearlyTax>>

updatePPhChart(result) == <<result.takeHome, result.yearlyTax>>

(***************************************************************************)
(* Formulas.calculateKPR                                                   *)
(***************************************************************************)
\* principal * (monthlyRate * factor) / (factor - 1)
MonthlyPayment(principal, monthlyRate, factor) ==
  FDiv(FMul(principal, FMul(monthlyRate, factor)), FSub(factor, F(1)))

\* KPRTotals subtracting the wrong way round
KPRTotalsReversed(principal, months, monthlyPayment) ==
  [monthlyPayment |-> monthlyPayment,
   totalInterest  |-> FSub(principal, FMul(monthlyPayment, months))]

\* totalPayment = monthlyPayment * months; totalInterest = totalPayment - principal
KPRTotals(principal, months, monthlyPayment) ==
  [monthlyPayment |-> monthlyPayment,
   totalInterest  |-> FSub(FMul(monthlyPayment, months), principal)]

\* KPRPayment treating a loan without interest as principal / months
KPRPaymentInterestFree(principal, monthlyRate, months, ulps) ==
  IF FIsPositive(months)
  THEN IF FIsPositive(monthlyRate)
       THEN KPRTotals(principal, months,
              MonthlyPayment(principal, monthlyRate,
                MathPow(FAdd(F(1), monthlyRate), FToInt(months), ulps)))
       ELSE [monthlyPayment |-> FDiv(principal, months), totalInterest |-> FZero]
  ELSE [monthlyPayment |-> FZero, totalInterest |-> FZero]

\* the annuity branch: [monthlyPayment, totalInterest] before rounding
KPRPayment(principal, monthlyRate, months, ulps) ==
  IF FIsPositive(monthlyRate) /\ FIsPositive(months)
  THEN KPRTotals(principal, months,
         MonthlyPayment(principal, monthlyRate,
           MathPow(FAdd(F(1), monthlyRate), FToInt(months), ulps)))
  ELSE [monthlyPayment |-> FZero, totalInterest |-> FZero]

\* principal > 0 ? ((totalInterest / principal) * 100).toFixed(1) : 0
InterestRatio(totalInterest, principal) ==
  IF FIsPositive(principal)
  THEN ToFixed(FMul(FDiv(totalInterest, principal), F(100)), 1)
  ELSE NumberZero

\* the returned object, pay being what the annuity branch leaves
KPRReturn(propertyPrice, downPayment, principal, monthlyRate, months, pay) ==
  [propertyPrice  |-> propertyPrice,
   downPayment    |-> MathRound(downPayment),
   principal      |-> MathRound(principal),
   monthlyRate    |-> monthlyRate,
   tenorMonths    |-> months,
   monthlyPayment |-> MathRound(pay.monthlyPayment),
   totalPayment   |-> MathRound(FMul(pay.monthlyPayment, months)),
   totalInterest  |-> MathRound(pay.totalInterest),
   interestRatio  |-> InterestRatio(pay.totalInterest, principal)]

KPROfPrincipal(propertyPrice, downPayment, principal, monthlyRate, months, ulps) ==
  KPRReturn(propertyPrice, downPayment, principal, monthlyRate, months,
            KPRPayment(principal, monthlyRate, months, ulps))

KPROfDownPayment(propertyPrice, downPayment, monthlyRate, months, ulps) ==
  KPROfPrincipal(propertyPrice, downPayment, FSub(propertyPrice, downPayment),
                 monthlyRate, months, ulps)

calculateKPR(propertyPrice, dpPercent, yearlyRate, tenorYears, ulps) ==
  KPROfDownPayment(propertyPrice,
                   FMul(propertyPrice, FDiv(dpPercent, F(100))),
                   FDiv(FDiv(yearlyRate, F(100)), F(12)),
                   FMul(tenorYears, F(12)),
                   ulps)

(***************************************************************************)
(* ChartsModule.updateKPRChart                                             *)
(***************************************************************************)
updateKPRChart(result) == <<result.principal, result.totalInterest>>

(***************************************************************************)
(* Formulas.calculateFreelanceRate                                         *)
(***************************************************************************)
\* the literals 0.9 and 1.3: the doubles nearest to 9/10 and 13/10
MinBuffer == FDiv(F(9), F(10))

MaxBuffer == FDiv(F(13), F(10))

\* the return statement: every field but the echoed inputs goes through Math.round
FreelanceReturnOfRounded(monthlyExpenses, monthlySavings, billableHours, targetIncome, hourlyRate) ==
  [monthlyExpenses |-> monthlyExpenses,
   monthlySavings  |-> monthlySavings,
   targetIncome    |-> MathRound(targetIncome),
   billableHours   |-> billableHours,
   hourlyRate      |-> MathRound(hourlyRate),
   dailyRate       |-> FMul(MathRound(hourlyRate), F(8)),
   weeklyRate      |-> FMul(MathRound(hourlyRate), F(40)),
   minHourlyRate   |-> FMul(MathRound(hourlyRate), MinBuffer),
   maxHourlyRate   |-> FMul(MathRound(hourlyRate), MaxBuffer)]

FreelanceReturn(monthlyExpenses, monthlySavings, billableHours, targetIncome, hourlyRate) ==
  [monthlyExpenses |-> monthlyExpenses,
   monthlySavings  |-> monthlySavings,
   targetIncome    |-> MathRound(targetIncome),
   billableHours   |-> billableHours,
   hourlyRate      |-> MathRound(hourlyRate),
   dailyRate       |-> MathRound(FMul(hourlyRate, F(8))),
   weeklyRate      |-> MathRound(FMul(hourlyRate, F(40))),
   minHourlyRate   |-> MathRound(FMul(hourlyRate, MinBuffer)),
   maxHourlyRate   |-> MathRound(FMul(hourlyRate, MaxBuffer))]

FreelanceHourlyRateUnguarded(targetIncome, billableHours) ==
  IF FLess(F(0), billableHours) THEN FDiv(targetIncome, billableHours) ELSE targetIncome

\* billableHours > 0 ? targetIncome / billableHours : 0
FreelanceHourlyRate(targetIncome, billableHours) ==
  IF FLess(F(0), billableHours) THEN FDiv(targetIncome, billableHours) ELSE F(0)

FreelanceOfTarget(monthlyExpenses, monthlySavings, billableHours, targetIncome) ==
  FreelanceReturn(monthlyExpenses, monthlySavings, billableHours, targetIncome,
                  FreelanceHourlyRate(targetIncome, billableHours))

calculateFreelanceRate(monthlyExpenses, monthlySavings, billableHours) ==
  FreelanceOfTarget(monthlyExpenses, monthlySavings, billableHours,
                    FAdd(monthlyExpenses, monthlySavings))

(***************************************************************************)
(* ChartsModule.updateFreelanceChart, Formulas.formatRupiah                *)
(***************************************************************************)
updateFreelanceChart(result) == <<result.monthlyExpenses, result.monthlySavings>>

\* Intl.NumberFormat('id-ID', currency IDR, no fraction digits).format(amount): the
\* text is held as its sign and the whole rupiah, halves rounded away from zero
formatRupiah(amount) ==
  [currency |-> "IDR", minus |-> amount.neg, whole |-> FHalfUp(amount, 1).q]

(***************************************************************************)
(* parseFloat and || as the controllers use them.  A string is the         *)
(* sequence of its characters.  parseFloat skips leading blanks, reads the *)
(* longest prefix that is a decimal literal (sign, digits, point, digits,  *)
(* exponent) and yields NaN when there is none.  The literal Infinity is   *)
(* left out, and the literals are short: under 2^53 with at most 22        *)
(* fraction digits.                                                        *)
(***************************************************************************)
IsDigit(c) == c \in {"0", "1", "2", "3", "4", "5", "6", "7", "8", "9"}

DigitOf(c) ==
  CHOOSE d \in 0..9 : <<"0", "1", "2", "3", "4", "5", "6", "7", "8", "9">>[d + 1] = c

CharAt(s, i) == IF i \in 1..Len(s) THEN s[i] ELSE ""

\* where the run of digits that starts at i ends: i - 1 when s[i] is no digit
DigitRunEnd(s, i) ==
  IF i > Len(s) THEN i - 1
  ELSE SetMax({ j \in (i - 1)..Len(s) : \A k \in i..j : IsDigit(s[k]) })

\* the natural that the digits s[1..j] denote
RECURSIVE DigitsValue(_, _)
DigitsValue(s, j) ==
  IF j = 0 THEN <<>>
  ELSE BigAdd(BigMulSmall(DigitsValue(s, j - 1), 10), BigFromInt(DigitOf(s[j])))

\* the double nearest to (-1)^neg * digits * 10^e10
DecimalValue(neg, digits, e10) ==
  IF e10 >= 0 THEN FRound(neg, BigMul(digits, BigPow(<<10>>, e10)), 0)
  ELSE FDiv(FRound(neg, digits, 0), FRound(FALSE, BigPow(<<10>>, 0 - e10), 0))

\* the value of the exponent part that follows s[m], 0 when there is none
ParseExponent(s, m) ==
  LET signed == CharAt(s, m + 2) \in {"+", "-"}
      first  == IF signed THEN m + 3 ELSE m + 2
      last   == DigitRunEnd(s, first)
      value  == BigToInt(DigitsValue(SubSeq(s, first, last), last - first + 1))
  IN  IF CharAt(s, m + 1) \in {"e", "E"} /\ last >= first
      THEN (IF CharAt(s, m + 2) = "-" THEN 0 - value ELSE value)
      ELSE 0

NotANumber == [nan |-> TRUE, value |-> FZero]

\* the literal with integer digits s[i..j] and, after a point, fraction digits up to k
ParseDigits(s, neg, i, j, k) ==
  LET point   == CharAt(s, j + 1) = "."
      fracLen == IF point THEN k - (j + 1) ELSE 0
      digits  == SubSeq(s, i, j) \o (IF point THEN SubSeq(s, j + 2, k) ELSE <<>>)
  IN  IF digits = <<>> THEN NotANumber
      ELSE [nan   |-> FALSE,
            value |-> DecimalValue(neg, DigitsValue(digits, Len(digits)),
                                   ParseExponent(s, IF point THEN k ELSE j) - fracLen)]

ParseFloat(s) ==
  LET start == SetMax({ j \in 0..Len(s) : \A k \in 1..j : s[k] \in {" ", "\t"} }) + 1
      first == IF CharAt(s, start) \in {"+", "-"} THEN start + 1 ELSE start
  IN  ParseDigits(s, CharAt(s, start) = "-", first, DigitRunEnd(s, first),
                  DigitRunEnd(s, DigitRunEnd(s, first) + 2))

\* parseFloat(...) || fallback: NaN and 0 are falsy
OrDefault(parsed, fallback) ==
  IF parsed.nan \/ parsed.value.m = <<>> THEN fallback ELSE parsed.value

(***************************************************************************)
(* The objects the engine allocates.  An array literal and an object       *)
(* literal each make a new cell of the heap; a result holds its brackets   *)
(* array by reference.                                                     *)
(***************************************************************************)
ArrayCell(items) == [kind |-> "array", items |-> items]

ObjectCell(fields) == [kind |-> "object", fields |-> fields]

\* a module-level array that every call pushes to, instead of a new one per call
NewBracketsShared(h, entries) ==
  IF h = <<>> \/ h[1].kind # "array"
  THEN [heap |-> Append(h, ArrayCell(entries)), ref |-> Len(h) + 1]
  ELSE [heap |-> [h EXCEPT ![1] = ArrayCell(@.items \o entries)], ref |-> 1]

\* const brackets = [] and the pushes of a call: a new array holding its entries
NewBrackets(h, entries) == [heap |-> Append(h, ArrayCell(entries)), ref |-> Len(h) + 1]

\* the object literal calculatePPh21 returns, allocated after its brackets array
PPhObject(result, arr) ==
  Append(arr.heap, ObjectCell([result EXCEPT !.brackets = [ref |-> arr.ref]]))

PPhAlloc(h, result) == PPhObject(result, NewBrackets(h, result.brackets))

\* the object literal calculateKPR or calculateFreelanceRate returns
ResultAlloc(h, result) == Append(h, ObjectCell(result))

\* what a caller sees in the object at id: its fields, the brackets array followed
Deref(h, id) ==
  IF "brackets" \in DOMAIN h[id].fields
  THEN [h[id].fields EXCEPT !.brackets = h[@.ref].items]
  ELSE h[id].fields

\* the entry of the log for the call that has just returned the last object of h
LogEntry(fn, args, h) ==
  [fn |-> fn, args |-> args, ref |-> Len(h), returned |-> Deref(h, Len(h))]

(***************************************************************************)
(* The inputs the calculators are run on.                                  *)
(***************************************************************************)
MaxOffset == 2

\* amounts around which the gross incomes are taken: zero, two small amounts, the
\* spec's example 310,000,000 and the four bracket limits
GrossAnchors ==
  { F(0), F(10), F(110), F(60000000), F(250000000), F(310000000), F(500000000),
    FMul(F(5000), F(1000000)) }

\* every anchor, and the amounts up to MaxOffset half rupiah below and above it
GrossInputs ==
  { FAdd(a, FDiv(F(d), F(2))) : a \in GrossAnchors, d \in (0 - MaxOffset)..MaxOffset }

\* thresholds: none, the controller's default, and a negative one
PtkpInputs == { F(0), F(54000000), F(0 - 60000000) }

\* every gross income with every threshold, with itself and with one rupiah more
PPhInputs ==
  { [grossIncome |-> g, ptkp |-> p] : g \in GrossInputs, p \in PtkpInputs }
  \cup { [grossIncome |-> g, ptkp |-> g] : g \in GrossInputs }
  \cup { [grossIncome |-> g, ptkp |-> FAdd(g, F(1))] : g \in GrossInputs }

MaxTenorQuarters == 3

MaxPowUlps == 1

\* prices: none, one with a fractional down payment, a realistic one, a negative one
PriceInputs == { F(0), F(101), FMul(F(1000), F(1000000)), F(0 - 100) }

\* down payments in percent: none, the controller's default, half, all, more than all
DpInputs == { F(0), F(20), F(50), F(100), F(150) }

\* yearly rates in percent: negative, zero, the literal 1e-11, the controller's 8.5
RateInputs ==
  { F(0 - 12), F(0), FDiv(F(1), FMul(F(100000), F(1000000))), FDiv(F(85), F(10)) }

\* tenors in years: the quarters from -1/4 to MaxTenorQuarters / 4
TenorInputs == { FDiv(F(q), F(4)) : q \in (0 - 1)..MaxTenorQuarters }

KPRInputs ==
  { [propertyPrice |-> p, dpPercent |-> d, yearlyRate |-> y, tenorYears |-> t] :
      p \in PriceInputs, d \in DpInputs, y \in RateInputs, t \in TenorInputs }

\* expenses: none, half a rupiah, an odd hundred, the spec's example, a negative one
ExpenseInputs == { F(0), FDiv(F(1), F(2)), F(100), F(10000000), F(0 - 3) }

\* savings: none, a fraction, the spec's example, one that outweighs the expenses
SavingsInputs == { F(0), FDiv(F(1), F(4)), F(5000000), F(0 - 10000000) }

MaxHours == 7

\* billable hours: a negative count, the halves from 0 to MaxHours, the controller's 120
HoursInputs == { F(0 - 8), F(120) } \cup { FDiv(F(h), F(2)) : h \in 0..(2 * MaxHours) }

FreelanceInputs ==
  { [monthlyExpenses |-> x, monthlySavings |-> y, billableHours |-> h] :
      x \in ExpenseInputs, y \in SavingsInputs, h \in HoursInputs }

MaxCalls == 3

\* the arguments of the calls that are repeated and interleaved
EnginePPhInputs ==
  { [grossIncome |-> F(310000000), ptkp |-> F(54000000)],
    [grossIncome |-> F(110), ptkp |-> F(0)] }

EngineKPRInputs ==
  { [propertyPrice |-> F(101), dpPercent |-> F(50),
     yearlyRate |-> FDiv(F(85), F(10)), tenorYears |-> FDiv(F(1), F(4))],
    [propertyPrice |-> F(101), dpPercent |-> F(20),
     yearlyRate |-> F(0), tenorYears |-> FDiv(F(1), F(2))] }

EngineFreelanceInputs ==
  { [monthlyExpenses |-> F(10000000), monthlySavings |-> F(5000000),
     billableHours |-> F(120)],
    [monthlyExpenses |-> F(100), monthlySavings |-> F(0), billableHours |-> F(7)] }

\* the input fields of the three calculators
PPhFields == {"pph-gross", "pph-ptkp"}

KPRFields == {"kpr-price", "kpr-dp", "kpr-rate", "kpr-tenor"}

FreelanceFields == {"fl-expense", "fl-savings", "fl-hours"}

Fields == PPhFields \cup KPRFields \cup FreelanceFields

\* what a user leaves in a field: nothing, text, zero, numbers in several spellings
RawInputs(f) ==
  CASE f = "pph-gross"  -> { <<>>, <<"0">>, <<"3", "1", "0", "e", "6">>,
                             <<"1", "1", "0", ".", "5", "0">>, <<"-", "5">> }
    [] f = "pph-ptkp"   -> { <<>>, <<"5", "4", "0", "0", "0", "0", "0", "0">>,
                             <<"5", "8", "5", "0", "0", "0", "0", "0">> }
    [] f = "kpr-price"  -> { <<>>, <<"1", "0", "0", "0", "0", "0", "0", "0", "0", "0">> }
    [] f = "kpr-dp"     -> { <<"0">>, <<"1", "2", ".", "5", "%">> }
    [] f = "kpr-rate"   -> { <<>>, <<"0", ".", "0">>, <<" ", "7", ".", "5">> }
    [] f = "kpr-tenor"  -> { <<"0">>, <<".", "2", "5">> }
    [] f = "fl-expense" -> { <<>>, <<"1", "0", "0">>, <<"a", "b", "c">> }
    [] f = "fl-savings" -> { <<"0">>, <<"+", "2", "5", ".">>, <<"-", "1", "e", "2">> }
    [] f = "fl-hours"   -> { <<>>, <<"0">>, <<"7">>, <<"-", "8">>, <<"1", "2", "0">> }

NoArgs == [none |-> TRUE]

NoResult == [none |-> TRUE]

\* data: [0, 0] of a new chart
NewChartData == <<F(0), F(0)>>

\* nothing has happened in the parts of the site a run does not drive
PPhIdle ==
  /\ pphArgs = NoArgs
  /\ pphResult = NoResult
  /\ chartsPph = FALSE
  /\ pphChartData = NewChartData

KPRIdle ==
  /\ kprArgs = NoArgs
  /\ powUlps = 0
  /\ kprResult = NoResult
  /\ chartsKpr = FALSE
  /\ kprChartData = NewChartData

FreelanceIdle ==
  /\ flArgs = NoArgs
  /\ flResult = NoResult

EngineIdle ==
  /\ heap = <<>>
  /\ callLog = <<>>

\* the page as loaded: empty fields, no results shown
NoFields == [f \in Fields |-> <<>>]

\* the result elements the handlers write show nothing
NoText ==
  [el \in {"pph-yearly", "pph-monthly", "kpr-monthly", "kpr-loan", "kpr-interest",
           "fl-hourly", "fl-daily", "fl-target"} |-> NoResult]

ControllerIdle ==
  /\ fieldValue = NoFields
  /\ textContent = NoText
  /\ chartsFl = FALSE
  /\ flChartData = NewChartData

ThemeIdle ==
  /\ storedTheme = "none"
  /\ htmlDark = FALSE
  /\ bodyLight = FALSE
  /\ prefersLight = FALSE
  /\ listeners = <<>>
  /\ themeLog = <<>>

SkeletonIdle ==
  /\ container = [contentLoading |-> FALSE, loaded |-> FALSE, overlays |-> 0]
  /\ timers = 0
  /\ skeletonLog = <<>>

PageIdle == ThemeIdle /\ SkeletonIdle

LaterIdle == FreelanceIdle /\ EngineIdle /\ ControllerIdle /\ PageIdle

InitPPh ==
  /\ app = "pph"
  /\ pc = "input"
  /\ pphArgs \in PPhInputs
  /\ pphResult = NoResult
  /\ chartsPph \in BOOLEAN
  /\ pphChartData = NewChartData
  /\ KPRIdle
  /\ LaterIdle

InitKPR ==
  /\ app = "kpr"
  /\ pc = "input"
  /\ kprArgs \in KPRInputs
  /\ powUlps \in (0 - MaxPowUlps)..MaxPowUlps
  /\ kprResult = NoResult
  /\ chartsKpr \in BOOLEAN
  /\ kprChartData = NewChartData
  /\ PPhIdle
  /\ LaterIdle

InitFreelance ==
  /\ app = "freelance"
  /\ pc = "input"
  /\ flArgs \in FreelanceInputs
  /\ flResult = NoResult
  /\ PPhIdle
  /\ KPRIdle
  /\ EngineIdle
  /\ ControllerIdle
  /\ PageIdle

\* the engine has been loaded and nothing has been called
InitEngine ==
  /\ app = "engine"
  /\ pc = "input"
  /\ heap = <<>>
  /\ callLog = <<>>
  /\ pphArgs = NoArgs
  /\ pphResult = NoResult
  /\ chartsPph = FALSE
  /\ pphChartData = NewChartData
  /\ kprArgs = NoArgs
  /\ powUlps \in (0 - MaxPowUlps)..MaxPowUlps
  /\ kprResult = NoResult
  /\ chartsKpr = FALSE
  /\ kprChartData = NewChartData
  /\ FreelanceIdle
  /\ ControllerIdle
  /\ PageIdle

\* CalculatorController.init has run after ChartsModule.init; the user is on one of
\* the three tabs, whose chart exists if the page has its canvas
InitController ==
  /\ app \in {"pph-tab", "kpr-tab", "freelance-tab"}
  /\ pc = "input"
  /\ fieldValue = NoFields
  /\ textContent = NoText
  /\ chartsPph \in (IF app = "pph-tab" THEN BOOLEAN ELSE {FALSE})
  /\ chartsKpr \in (IF app = "kpr-tab" THEN BOOLEAN ELSE {FALSE})
  /\ chartsFl \in (IF app = "freelance-tab" THEN BOOLEAN ELSE {FALSE})
  /\ pphArgs = NoArgs
  /\ pphResult = NoResult
  /\ pphChartData = NewChartData
  /\ kprArgs = NoArgs
  /\ powUlps = 0
  /\ kprResult = NoResult
  /\ kprChartData = NewChartData
  /\ flChartData = NewChartData
  /\ FreelanceIdle
  /\ EngineIdle
  /\ PageIdle

(***************************************************************************)
(* The theme controllers.  Both read and write localStorage under          *)
(* 'portfolio-theme'; js/theme-toggle.js keeps the class 'dark' on the     *)
(* html element, the second function of js/skeleton-loader.js keeps        *)
(* 'light-theme' on body.  Their functions take and yield the page,        *)
(* [stored, htmlDark, bodyLight].                                          *)
(***************************************************************************)
\* getPreferredTheme of either script: the stored theme, else the system's
getPreferredTheme(stored, matches) ==
  IF stored # "none" THEN stored ELSE IF matches THEN "light" ELSE "dark"

\* theme-toggle.js
applyTheme(p, theme) == [p EXCEPT !.htmlDark = (theme = "dark")]

\* a toggle that stores the theme it replaces
toggleThemeStoresOld(p) ==
  [applyTheme(p, IF p.htmlDark THEN "light" ELSE "dark")
     EXCEPT !.stored = IF p.htmlDark THEN "dark" ELSE "light"]

toggleTheme(p) ==
  [applyTheme(p, IF p.htmlDark THEN "light" ELSE "dark")
     EXCEPT !.stored = IF p.htmlDark THEN "light" ELSE "dark"]

\* a change listener that does not look at the storage
onSystemChangeUnguarded(p, matches) ==
  applyTheme(p, IF matches THEN "light" ELSE "dark")

\* the listener of the media query's change event
onSystemChange(p, matches) ==
  IF p.stored = "none" THEN applyTheme(p, IF matches THEN "light" ELSE "dark") ELSE p

\* skeleton-loader.js
bodyApplyTheme(p, theme) == [p EXCEPT !.bodyLight = (theme = "light")]

bodyToggleTheme(p) ==
  [bodyApplyTheme(p, IF p.bodyLight THEN "dark" ELSE "light")
     EXCEPT !.stored = IF p.bodyLight THEN "dark" ELSE "light"]

bodyOnSystemChange(p, matches) ==
  IF p.stored = "none" THEN bodyApplyTheme(p, IF matches THEN "light" ELSE "dark") ELSE p

\* what a script does on an event [type, target, matches].  On load its init
\* applies the preferred theme; a click runs the listener it has put on the
\* button, and skeleton-loader.js has none on 'theme-toggle-mobile'; a change of
\* the media query runs its change listener
ScriptOn(script, event, p) ==
  IF script = "theme-toggle.js"
  THEN CASE event.type = "load"   -> applyTheme(p, getPreferredTheme(p.stored, event.matches))
         [] event.type = "click"  -> toggleTheme(p)
         [] event.type = "change" -> onSystemChange(p, event.matches)
  ELSE CASE event.type = "load"   ->
              bodyApplyTheme(p, getPreferredTheme(p.stored, event.matches))
         [] event.type = "click"  ->
              IF event.target = "theme-toggle" THEN bodyToggleTheme(p) ELSE p
         [] event.type = "change" -> bodyOnSystemChange(p, event.matches)

\* the scripts of the page act one after the other, in the order they were loaded
EachScript(event, p) ==
  IF Len(listeners) = 1 THEN ScriptOn(listeners[1], event, p)
  ELSE ScriptOn(listeners[2], event, ScriptOn(listeners[1], event, p))

Event(type, target, matches) == [type |-> type, target |-> target, matches |-> matches]

Page == [stored |-> storedTheme, htmlDark |-> htmlDark, bodyLight |-> bodyLight]

\* a document as parsed, before any script has run: neither class is in the markup
NewPage(stored) == [stored |-> stored, htmlDark |-> FALSE, bodyLight |-> FALSE]

MaxThemeEvents == 3

\* a first visit to a page whose scripts are ls: nothing is stored, init has run
InitPage(ls) ==
  /\ app = "theme"
  /\ pc = "input"
  /\ listeners = ls
  /\ prefersLight \in BOOLEAN
  /\ storedTheme = "none"
  /\ htmlDark = EachScript(Event("load", "document", prefersLight),
                           NewPage("none")).htmlDark
  /\ bodyLight = EachScript(Event("load", "document", prefersLight),
                            NewPage("none")).bodyLight
  /\ themeLog = <<>>
  /\ PPhIdle
  /\ KPRIdle
  /\ FreelanceIdle
  /\ EngineIdle
  /\ ControllerIdle
  /\ SkeletonIdle

MaxSkeletonCalls == 5

\* a container of the page before any call: it may carry 'content-loading' in the
\* markup, and has no overlay
InitSkeleton ==
  /\ app = "skeleton"
  /\ pc = "input"
  /\ container \in { [contentLoading |-> c, loaded |-> FALSE, overlays |-> 0] :
                       c \in BOOLEAN }
  /\ timers = 0
  /\ skeletonLog = <<>>
  /\ PPhIdle
  /\ KPRIdle
  /\ FreelanceIdle
  /\ EngineIdle
  /\ ControllerIdle
  /\ ThemeIdle

\* a page with theme-toggle.js alone
InitTheme == InitPage(<<"theme-toggle.js">>)

\* a page with both scripts, in either order
InitThemes ==
  \/ InitPage(<<"theme-toggle.js", "skeleton-loader.js">>)
  \/ InitPage(<<"skeleton-loader.js", "theme-toggle.js">>)

Init ==
  InitPPh \/ InitKPR \/ InitFreelance \/ InitEngine \/ InitController \/ InitTheme
  \/ InitThemes \/ InitSkeleton

\* a caller invokes Formulas.calculatePPh21 on the arguments
CallCalculatePPh21 ==
  /\ app = "pph"
  /\ pc = "input"
  /\ pphResult' = calculatePPh21(pphArgs.grossIncome, pphArgs.ptkp)
  /\ pc' = "computed"
  /\ UNCHANGED <<app, pphArgs, chartsPph, pphChartData,
                 kprArgs, powUlps, kprResult, chartsKpr, kprChartData, laterVars>>

\* the caller forwards the result to ChartsModule.updatePPhChart
CallUpdatePPhChart ==
  /\ app = "pph"
  /\ pc = "computed"
  /\ pphChartData' = IF chartsPph THEN updatePPhChart(pphResult) ELSE pphChartData
  /\ pc' = "charted"
  /\ UNCHANGED <<app, pphArgs, pphResult, chartsPph,
                 kprArgs, powUlps, kprResult, chartsKpr, kprChartData, laterVars>>

\* a caller invokes Formulas.calculateKPR on the arguments
CallCalculateKPR ==
  /\ app = "kpr"
  /\ pc = "input"
  /\ kprResult' = calculateKPR(kprArgs.propertyPrice, kprArgs.dpPercent,
                               kprArgs.yearlyRate, kprArgs.tenorYears, powUlps)
  /\ pc' = "computed"
  /\ UNCHANGED <<app, kprArgs, powUlps, chartsKpr, kprChartData,
                 pphArgs, pphResult, chartsPph, pphChartData, laterVars>>

\* the caller forwards the result to ChartsModule.updateKPRChart
CallUpdateKPRChart ==
  /\ app = "kpr"
  /\ pc = "computed"
  /\ kprChartData' = IF chartsKpr THEN updateKPRChart(kprResult) ELSE kprChartData
  /\ pc' = "charted"
  /\ UNCHANGED <<app, kprArgs, powUlps, kprResult, chartsKpr,
                 pphArgs, pphResult, chartsPph, pphChartData, laterVars>>

\* a caller invokes Formulas.calculateFreelanceRate on the arguments
CallCalculateFreelanceRate ==
  /\ app = "freelance"
  /\ pc = "input"
  /\ flResult' = calculateFreelanceRate(flArgs.monthlyExpenses, flArgs.monthlySavings,
                                        flArgs.billableHours)
  /\ pc' = "computed"
  /\ UNCHANGED <<app, flArgs, pphArgs, pphResult, chartsPph, pphChartData,
                 kprArgs, powUlps, kprResult, chartsKpr, kprChartData, heap, callLog,
                 fieldValue, textContent, chartsFl, flChartData, pageVars>>

\* the variables a call of the engine leaves alone
calcVars == <<app, pc, pphArgs, pphResult, chartsPph, pphChartData,
              kprArgs, powUlps, kprResult, chartsKpr, kprChartData, flArgs, flResult,
              fieldValue, textContent, chartsFl, flChartData, pageVars>>

\* some caller invokes Formulas.calculatePPh21, after whatever calls came before
EngineCallPPh21 ==
  /\ app = "engine"
  /\ Len(callLog) < MaxCalls
  /\ \E a \in EnginePPhInputs :
       /\ heap' = PPhAlloc(heap, calculatePPh21(a.grossIncome, a.ptkp))
       /\ callLog' = Append(callLog, LogEntry("calculatePPh21", a, heap'))
  /\ UNCHANGED calcVars

\* some caller invokes Formulas.calculateKPR
EngineCallKPR ==
  /\ app = "engine"
  /\ Len(callLog) < MaxCalls
  /\ \E a \in EngineKPRInputs :
       /\ heap' = ResultAlloc(heap, calculateKPR(a.propertyPrice, a.dpPercent,
                                                 a.yearlyRate, a.tenorYears, powUlps))
       /\ callLog' = Append(callLog, LogEntry("calculateKPR", a, heap'))
  /\ UNCHANGED calcVars

\* some caller invokes Formulas.calculateFreelanceRate
EngineCallFreelanceRate ==
  /\ app = "engine"
  /\ Len(callLog) < MaxCalls
  /\ \E a \in EngineFreelanceInputs :
       /\ heap' = ResultAlloc(heap, calculateFreelanceRate(a.monthlyExpenses,
                                                           a.monthlySavings,
                                                           a.billableHours))
       /\ callLog' = Append(callLog, LogEntry("calculateFreelanceRate", a, heap'))
  /\ UNCHANGED calcVars

\* the body of initPPhCalculator's calculateAndUpdate, the fields parsed
PPhHandler(gross, ptkp) ==
  IF FLess(F(0), gross)
  THEN /\ pphArgs' = [grossIncome |-> gross, ptkp |-> ptkp]
       /\ pphResult' = calculatePPh21(gross, ptkp)
       /\ textContent' = [textContent EXCEPT
                            !["pph-yearly"] = formatRupiah(pphResult'.yearlyTax),
                            !["pph-monthly"] = formatRupiah(pphResult'.monthlyTax)]
       /\ pphChartData' = IF chartsPph THEN updatePPhChart(pphResult') ELSE pphChartData
       /\ pc' = "called"
  ELSE /\ pc' = "skipped"
       /\ UNCHANGED <<pphArgs, pphResult, textContent, pphChartData>>

\* a click on calc-pph, or an input or change event of one of the two fields
PPhCalculateAndUpdate ==
  /\ app = "pph-tab"
  /\ \E f \in PPhFields : \E raw \in RawInputs(f) :
       /\ fieldValue' = [fieldValue EXCEPT ![f] = raw]
       /\ \E parsed \in {[g \in PPhFields |-> ParseFloat(fieldValue'[g])]} :
          \E gross \in {OrDefault(parsed["pph-gross"], F(0))} :
          \E ptkp \in {OrDefault(parsed["pph-ptkp"], F(54000000))} :
            PPhHandler(gross, ptkp)
  /\ UNCHANGED <<app, chartsPph, kprArgs, powUlps, kprResult, chartsKpr, kprChartData,
                 flArgs, flResult, heap, callLog, chartsFl, flChartData, pageVars>>

\* the body of initKPRCalculator's calculateAndUpdate, the fields parsed
KPRHandler(price, dp, rate, tenor) ==
  IF FLess(F(0), price)
  THEN /\ kprArgs' = [propertyPrice |-> price, dpPercent |-> dp,
                       yearlyRate |-> rate, tenorYears |-> tenor]
       /\ kprResult' = calculateKPR(price, dp, rate, tenor, powUlps)
       /\ textContent' = [textContent EXCEPT
                            !["kpr-monthly"] = formatRupiah(kprResult'.monthlyPayment),
                            !["kpr-loan"] = formatRupiah(kprResult'.principal),
                            !["kpr-interest"] = formatRupiah(kprResult'.totalInterest)]
       /\ kprChartData' = IF chartsKpr THEN updateKPRChart(kprResult') ELSE kprChartData
       /\ pc' = "called"
  ELSE /\ pc' = "skipped"
       /\ UNCHANGED <<kprArgs, kprResult, textContent, kprChartData>>

\* a click on calc-kpr, or an input event of one of the four fields
KPRCalculateAndUpdate ==
  /\ app = "kpr-tab"
  /\ \E f \in KPRFields : \E raw \in RawInputs(f) :
       /\ fieldValue' = [fieldValue EXCEPT ![f] = raw]
       /\ \E parsed \in {[g \in KPRFields |-> ParseFloat(fieldValue'[g])]} :
          \E price \in {OrDefault(parsed["kpr-price"], F(0))} :
          \E dp \in {OrDefault(parsed["kpr-dp"], F(20))} :
          \E rate \in {OrDefault(parsed["kpr-rate"], FDiv(F(85), F(10)))} :
          \E tenor \in {OrDefault(parsed["kpr-tenor"], F(15))} :
            KPRHandler(price, dp, rate, tenor)
  /\ UNCHANGED <<app, powUlps, chartsKpr, pphArgs, pphResult, chartsPph, pphChartData,
                 flArgs, flResult, heap, callLog, chartsFl, flChartData, pageVars>>

\* the body of initFreelanceCalculator's calculateAndUpdate, the fields parsed
FreelanceHandler(expense, savings, hours) ==
  IF FLess(F(0), expense) \/ FLess(F(0), savings)
  THEN /\ flArgs' = [monthlyExpenses |-> expense, monthlySavings |-> savings,
                      billableHours |-> hours]
       /\ flResult' = calculateFreelanceRate(expense, savings, hours)
       /\ textContent' = [textContent EXCEPT
                            !["fl-hourly"] = formatRupiah(flResult'.hourlyRate),
                            !["fl-daily"] = formatRupiah(flResult'.dailyRate),
                            !["fl-target"] = formatRupiah(flResult'.targetIncome)]
       /\ flChartData' = IF chartsFl THEN updateFreelanceChart(flResult') ELSE flChartData
       /\ pc' = "called"
  ELSE /\ pc' = "skipped"
       /\ UNCHANGED <<flArgs, flResult, textContent, flChartData>>

\* a click on calc-freelance, or an input event of one of the three fields
FreelanceCalculateAndUpdate ==
  /\ app = "freelance-tab"
  /\ \E f \in FreelanceFields : \E raw \in RawInputs(f) :
       /\ fieldValue' = [fieldValue EXCEPT ![f] = raw]
       /\ \E parsed \in {[g \in FreelanceFields |-> ParseFloat(fieldValue'[g])]} :
          \E expense \in {OrDefault(parsed["fl-expense"], F(0))} :
          \E savings \in {OrDefault(parsed["fl-savings"], F(0))} :
          \E hours \in {OrDefault(parsed["fl-hours"], F(120))} :
            FreelanceHandler(expense, savings, hours)
  /\ UNCHANGED <<app, chartsFl, pphArgs, pphResult, chartsPph, pphChartData,
                 kprArgs, powUlps, kprResult, chartsKpr, kprChartData, heap, callLog,
                 pageVars>>

\* the variables the theme controllers leave alone
themeFrame == <<app, pc, listeners, pphArgs, pphResult, chartsPph, pphChartData,
                kprArgs, powUlps, kprResult, chartsKpr, kprChartData,
                flArgs, flResult, heap, callLog, fieldValue, textContent, chartsFl,
                flChartData, container, timers, skeletonLog>>

SetPage(p) ==
  /\ storedTheme' = p.stored
  /\ htmlDark' = p.htmlDark
  /\ bodyLight' = p.bodyLight

\* a click on the desktop or on the mobile toggle button
ClickThemeToggle ==
  /\ app = "theme"
  /\ Len(themeLog) < MaxThemeEvents
  /\ \E button \in {"theme-toggle", "theme-toggle-mobile"} :
       /\ SetPage(EachScript(Event("click", button, prefersLight), Page))
       /\ themeLog' = Append(themeLog, button)
  /\ UNCHANGED <<prefersLight, themeFrame>>

\* the system's colour scheme changes while the page is open
SystemThemeChange ==
  /\ app = "theme"
  /\ Len(themeLog) < MaxThemeEvents
  /\ prefersLight' = ~prefersLight
  /\ SetPage(EachScript(Event("change", "media", prefersLight'), Page))
  /\ themeLog' = Append(themeLog, "change")
  /\ UNCHANGED themeFrame

\* the page is opened again, the system's colour scheme being what it is by then:
\* the document is new, the storage is kept, the scripts run their init
ReloadPage ==
  /\ app = "theme"
  /\ Len(themeLog) < MaxThemeEvents
  /\ prefersLight' \in BOOLEAN
  /\ SetPage(EachScript(Event("load", "document", prefersLight'),
                        NewPage(storedTheme)))
  /\ themeLog' = Append(themeLog, "reload")
  /\ UNCHANGED themeFrame

\* the variables the skeleton functions leave alone
skeletonFrame == <<app, pc, pphArgs, pphResult, chartsPph, pphChartData,
                   kprArgs, powUlps, kprResult, chartsKpr, kprChartData,
                   flArgs, flResult, heap, callLog, fieldValue, textContent, chartsFl,
                   flChartData, storedTheme, htmlDark, bodyLight, prefersLight,
                   listeners, themeLog>>

\* showSkeleton(container, type): the class is added and a new overlay appended
ShowSkeleton ==
  /\ app = "skeleton"
  /\ Len(skeletonLog) < MaxSkeletonCalls
  /\ container' = [container EXCEPT !.contentLoading = TRUE, !.overlays = @ + 1]
  /\ skeletonLog' = Append(skeletonLog, "showSkeleton")
  /\ UNCHANGED <<timers, skeletonFrame>>

\* hideSkeleton(container): 'loaded' is added and a timer of 400 ms started
HideSkeleton ==
  /\ app = "skeleton"
  /\ Len(skeletonLog) < MaxSkeletonCalls
  /\ container' = [container EXCEPT !.loaded = TRUE]
  /\ timers' = timers + 1
  /\ skeletonLog' = Append(skeletonLog, "hideSkeleton")
  /\ UNCHANGED skeletonFrame

\* the oldest timer fires: the first overlay, if there is one, is removed, and the
\* class 'content-loading' with it
HideTimerFires ==
  /\ app = "skeleton"
  /\ timers > 0
  /\ container' = [container EXCEPT !.contentLoading = FALSE,
                                    !.overlays = IF @ > 0 THEN @ - 1 ELSE 0]
  /\ timers' = timers - 1
  /\ UNCHANGED <<skeletonLog, skeletonFrame>>

NextPPh == CallCalculatePPh21 \/ CallUpdatePPhChart

NextKPR == CallCalculateKPR \/ CallUpdateKPRChart

NextFreelance == CallCalculateFreelanceRate

NextEngine == EngineCallPPh21 \/ EngineCallKPR \/ EngineCallFreelanceRate

NextController ==
  PPhCalculateAndUpdate \/ KPRCalculateAndUpdate \/ FreelanceCalculateAndUpdate

NextTheme == ClickThemeToggle \/ SystemThemeChange \/ ReloadPage

NextSkeleton == ShowSkeleton \/ HideSkeleton \/ HideTimerFires

Next ==
  NextPPh \/ NextKPR \/ NextFreelance \/ NextEngine \/ NextController \/ NextTheme
  \/ NextSkeleton

\* the tax calculator alone, the mortgage calculator alone, and either of them
SpecPPh == InitPPh /\ [][NextPPh]_vars

SpecKPR == InitKPR /\ [][NextKPR]_vars

SpecFreelance == InitFreelance /\ [][NextFreelance]_vars

\* the three functions called over and over, in any order
SpecEngine == InitEngine /\ [][NextEngine]_vars

\* the three calculators driven through their input fields
SpecController == InitController /\ [][NextController]_vars

\* the page with theme-toggle.js alone, and with both theme scripts
SpecTheme == InitTheme /\ [][NextTheme]_vars

SpecThemes == InitThemes /\ [][NextTheme]_vars

\* one container driven by calls of showSkeleton and hideSkeleton and their timers
SpecSkeleton == InitSkeleton /\ [][NextSkeleton]_vars

Spec == Init /\ [][Next]_vars

(***************************************************************************)
(* Exact values for the properties: [neg, m, e] is (-1)^neg * m * 2^e with *)
(* any natural m, so every double is one, and sums, differences and        *)
(* integer multiples of them are formed without rounding.                  *)
(***************************************************************************)
XInt(i) == [neg |-> i < 0, m |-> BigFromInt(IF i < 0 THEN 0 - i ELSE i), e |-> 0]

XSign(x) == IF x.m = <<>> THEN 0 ELSE IF x.neg THEN -1 ELSE 1

XNeg(x) == [x EXCEPT !.neg = ~x.neg]

XAdd(x, y) ==
  LET e0 == IF x.e < y.e THEN x.e ELSE y.e
      a  == BigShl(x.m, x.e - e0)
      b  == BigShl(y.m, y.e - e0)
      c  == BigCmp(a, b)
  IN  IF x.neg = y.neg THEN [neg |-> x.neg, m |-> BigAdd(a, b), e |-> e0]
      ELSE IF c >= 0 THEN [neg |-> x.neg, m |-> BigSub(a, b), e |-> e0]
      ELSE [neg |-> y.neg, m |-> BigSub(b, a), e |-> e0]

XSub(x, y) == XAdd(x, XNeg(y))

\* x * k for an integer 0 <= k < Base
XTimes(x, k) == [x EXCEPT !.m = BigMulSmall(x.m, k)]

XMul(x, y) == [neg |-> x.neg # y.neg, m |-> BigMul(x.m, y.m), e |-> x.e + y.e]

XEq(x, y) == XSign(XSub(x, y)) = 0

XLeq(x, y) == XSign(XSub(x, y)) <= 0

XLess(x, y) == XSign(XSub(x, y)) < 0

XIsInteger(x) == x.e >= 0 \/ BigShl(BigShr(x.m, 0 - x.e), 0 - x.e) = x.m

\* y is the integer nearest to x / k, halves towards +infinity:
\* y <= x / k + 1/2 < y + 1
IsNearest(y, x, k) ==
  /\ XIsInteger(y)
  /\ XLeq(XTimes(y, 2 * k), XAdd(XTimes(x, 2), XInt(k)))
  /\ XLess(XAdd(XTimes(x, 2), XInt(k)), XAdd(XTimes(y, 2 * k), XInt(2 * k)))

(***************************************************************************)
(* Properties of calculatePPh21                                            *)
(***************************************************************************)
PPhDone == app = "pph" /\ pc # "input"

\* the exact sum of the amounts of the entries
RECURSIVE SumAmount(_)
SumAmount(bs) == IF bs = <<>> THEN XInt(0) ELSE XAdd(bs[1].amount, SumAmount(Tail(bs)))

\* the exact sum of the taxes of the entries
RECURSIVE SumTax(_)
SumTax(bs) == IF bs = <<>> THEN XInt(0) ELSE XAdd(bs[1].tax, SumTax(Tail(bs)))

\* the taxes of the first n entries added as doubles, in the order of the list
RECURSIVE RunningTax(_, _)
RunningTax(bs, n) == IF n = 0 THEN FZero ELSE FAdd(RunningTax(bs, n - 1), bs[n].tax)

\* the unrounded tax a result was built from
UnroundedTax == RunningTax(pphResult.brackets, Len(pphResult.brackets))

\* C1: for grossIncome >= ptkp >= 0 the bracket amounts add up to pkp, and the bracket
\* taxes add up to a value whose rounding to the nearest rupiah is yearlyTax.
C1_BracketSums ==
  (PPhDone /\ ~pphArgs.ptkp.neg /\ XLeq(pphArgs.ptkp, pphArgs.grossIncome))
    => /\ XEq(SumAmount(pphResult.brackets), pphResult.pkp)
       /\ XEq(pphResult.pkp, XSub(pphArgs.grossIncome, pphArgs.ptkp))
       /\ IsNearest(pphResult.yearlyTax, SumTax(pphResult.brackets), 1)

\* a run with two brackets whose taxes add up to a fraction of a rupiah
C1_Witness ==
  /\ PPhDone /\ ~pphArgs.ptkp.neg /\ XLeq(pphArgs.ptkp, pphArgs.grossIncome)
  /\ Len(pphResult.brackets) >= 2
  /\ ~XIsInteger(SumTax(pphResult.brackets))

\* k million rupiah, for 0 <= k < Base
Million(k) == XTimes(XInt(1000000), k)

\* the part of the taxable income t that lies between lo and lo + width
Portion(t, lo, width) ==
  IF XLeq(t, lo) THEN XInt(0)
  ELSE IF XLeq(XSub(t, lo), width) THEN XSub(t, lo) ELSE width

\* 100 times the marginal-bracket reference tax of the taxable income t
ReferenceTax(t) ==
  XAdd(XTimes(Portion(t, XInt(0), Million(60)), 5),
  XAdd(XTimes(Portion(t, Million(60), Million(190)), 15),
  XAdd(XTimes(Portion(t, Million(250), Million(250)), 25),
  XAdd(XTimes(Portion(t, Million(500), Million(4500)), 30),
       XTimes(IF XLeq(t, Million(5000)) THEN XInt(0) ELSE XSub(t, Million(5000)), 35)))))

\* C2: yearlyTax is the marginal-bracket reference value of T = max(0, gross - ptkp),
\* rounded to the nearest rupiah; T = 310,000,000 gives the three entries 5%, 15%, 25%
\* (the last on 60,000,000) and yearlyTax = 46,500,000.
C2_MarginalReference ==
  PPhDone
    => /\ IsNearest(pphResult.yearlyTax, ReferenceTax(pphResult.pkp), 100)
       /\ XEq(pphResult.pkp, Million(310))
            => /\ Len(pphResult.brackets) = 3
               /\ pphResult.brackets[1].rate = "5%"
               /\ pphResult.brackets[2].rate = "15%"
               /\ pphResult.brackets[3].rate = "25%"
               /\ XEq(pphResult.brackets[3].amount, Million(60))
               /\ XEq(pphResult.brackets[3].tax, Million(15))
               /\ XEq(pphResult.yearlyTax, XInt(46500000))

\* the example T = 310,000,000 has been computed
C2_Witness == PPhDone /\ XEq(pphResult.pkp, Million(310))

BracketRates == <<"5%", "15%", "25%", "30%", "35%">>

BracketWidths == <<Million(60), Million(190), Million(250), Million(4500)>>

BracketLimits == <<Million(60), Million(250), Million(500), Million(5000)>>

\* C3: no entry of brackets has amount zero, the entries are a prefix of the sequence
\* 5%, 15%, 25%, 30%, 35%, and a taxable income exactly on the k-th bracket limit yields
\* k entries, the last the k-th bracket at full width, none for the next bracket;
\* calculatePPh21(60000000, 0) yields the one entry (5%, 60000000, 3000000).
C3_BracketEntries ==
  PPhDone
    => /\ \A i \in 1..Len(pphResult.brackets) : XSign(pphResult.brackets[i].amount) # 0
       /\ Len(pphResult.brackets) <= 5
       /\ \A i \in 1..Len(pphResult.brackets) : pphResult.brackets[i].rate = BracketRates[i]
       /\ \A k \in 1..4 :
            XEq(pphResult.pkp, BracketLimits[k])
              => /\ Len(pphResult.brackets) = k
                 /\ XEq(pphResult.brackets[k].amount, BracketWidths[k])
       /\ (XEq(pphArgs.grossIncome, Million(60)) /\ XSign(pphArgs.ptkp) = 0)
            => /\ Len(pphResult.brackets) = 1
               /\ pphResult.brackets[1].rate = "5%"
               /\ XEq(pphResult.brackets[1].amount, Million(60))
               /\ XEq(pphResult.brackets[1].tax, Million(3))

\* a taxable income exactly on the highest bracket limit has been computed
C3_Witness ==
  /\ PPhDone
  /\ XEq(pphResult.pkp, Million(5000))
  /\ Len(pphResult.brackets) = 4

\* C4: whenever grossIncome <= ptkp (calculatePPh21(x, x) in particular) the result has
\* pkp = 0, yearlyTax = 0, the number 0 as effectiveRate and an empty brackets list.
C4_NothingTaxable ==
  (PPhDone /\ XLeq(pphArgs.grossIncome, pphArgs.ptkp))
    => /\ pphResult.pkp = FZero
       /\ pphResult.yearlyTax = FZero
       /\ pphResult.monthlyTax = FZero
       /\ pphResult.effectiveRate = NumberZero
       /\ pphResult.brackets = <<>>

\* calculatePPh21(x, x) has been computed for an x that the brackets would tax
C4_Witness ==
  /\ PPhDone
  /\ pphArgs.grossIncome = pphArgs.ptkp
  /\ XLess(Million(60), pphArgs.grossIncome)
  /\ pphResult.pkp = FZero

\* |x| < 1
WithinOneRupiah(x) == XLess(x, XInt(1)) /\ XLess(XInt(0 - 1), x)

\* C5 as claimed: takeHome is grossIncome minus the returned yearlyTax, and the two
\* chart slices add up to grossIncome.
C5_Original ==
  PPhDone
    => /\ XEq(pphResult.takeHome, XSub(pphArgs.grossIncome, pphResult.yearlyTax))
       /\ (pc = "charted" /\ chartsPph)
            => XEq(XAdd(pphChartData[1], pphChartData[2]), pphArgs.grossIncome)

\* C5: takeHome is grossIncome minus the unrounded tax (the bracket taxes added up);
\* an existing chart receives the slices (takeHome, yearlyTax), whose sum is less than
\* one rupiah from grossIncome and equals it when the unrounded tax is a whole number
\* of rupiah; without a chart nothing is drawn.
C5_TakeHomeUnrounded ==
  PPhDone
    => /\ pphResult.takeHome = FSub(pphArgs.grossIncome, UnroundedTax)
       /\ WithinOneRupiah(XSub(XAdd(pphResult.takeHome, pphResult.yearlyTax),
                               pphArgs.grossIncome))
       /\ XIsInteger(UnroundedTax)
            => XEq(XAdd(pphResult.takeHome, pphResult.yearlyTax), pphArgs.grossIncome)
       /\ (pc = "charted" /\ chartsPph)
            => pphChartData = <<pphResult.takeHome, pphResult.yearlyTax>>
       /\ (pc = "charted" /\ ~chartsPph) => pphChartData = NewChartData

\* the chart has been given the slices of a result whose tax is not a whole rupiah
C5_Witness ==
  /\ PPhDone /\ pc = "charted" /\ chartsPph
  /\ ~XIsInteger(UnroundedTax)
  /\ ~XEq(XAdd(pphChartData[1], pphChartData[2]), pphArgs.grossIncome)

\* C6 as claimed: monthlyTax is the returned (rounded) yearlyTax divided by 12, rounded.
C6_Original == PPhDone => IsNearest(pphResult.monthlyTax, pphResult.yearlyTax, 12)

\* C6: monthlyTax is the unrounded tax (the bracket taxes added up) divided by 12 and
\* rounded to the nearest rupiah; it is within one rupiah of round(yearlyTax / 12).
C6_MonthlyFromUnrounded ==
  PPhDone
    => /\ IsNearest(pphResult.monthlyTax, FDiv(UnroundedTax, F(12)), 1)
       /\ \E d \in {0 - 1, 0, 1} :
            IsNearest(XAdd(pphResult.monthlyTax, XInt(d)), pphResult.yearlyTax, 12)

\* a result whose monthlyTax is not round(yearlyTax / 12)
C6_Witness ==
  /\ PPhDone
  /\ XSign(pphResult.yearlyTax) > 0
  /\ ~IsNearest(pphResult.monthlyTax, pphResult.yearlyTax, 12)

(***************************************************************************)
(* Properties of calculateKPR                                              *)
(***************************************************************************)
KPRDone == app = "kpr" /\ pc # "input"

XAbs(x) == [x EXCEPT !.neg = FALSE]

\* x^n for an integer n >= 0
XPow(x, n) == [neg |-> x.neg /\ n % 2 = 1, m |-> BigPow(x.m, n), e |-> x.e * n]

\* y is the integer nearest to num / den, halves towards +infinity, for den # 0
IsNearestRatio(y, num, den) ==
  LET n == IF den.neg THEN XNeg(num) ELSE num
      d == XAbs(den)
      h == XAdd(XTimes(n, 2), d)
  IN  /\ XIsInteger(y)
      /\ XLeq(XTimes(XMul(y, d), 2), h)
      /\ XLess(h, XTimes(XMul(XAdd(y, XInt(1)), d), 2))

\* the loan is in the annuity branch: monthlyRate > 0 and months > 0
AnnuityCase == XSign(kprArgs.yearlyRate) > 0 /\ XSign(kprArgs.tenorYears) > 0

\* n = tenorYears * 12, an integer for every tenor of the model
LoanMonths == FToInt(FMul(kprArgs.tenorYears, F(12)))

\* 100 * principal = propertyPrice * (100 - dpPercent), exactly
LoanPrincipal100 == XMul(kprArgs.propertyPrice, XSub(XInt(100), kprArgs.dpPercent))

\* 1200 * (1 + r) = 1200 + yearlyRate, exactly
LoanGrowth1200 == XAdd(XInt(1200), kprArgs.yearlyRate)

\* the annuity value principal * r * (1+r)^n / ((1+r)^n - 1) as num / den, exactly,
\* for r = yearlyRate / 1200 and an integer n # 0 (where n < 0, numerator and
\* denominator are multiplied by (1+r)^(-n))
AnnuityNum ==
  XMul(XMul(LoanPrincipal100, kprArgs.yearlyRate),
       IF LoanMonths > 0 THEN XPow(LoanGrowth1200, LoanMonths)
       ELSE XPow(XInt(1200), 0 - LoanMonths))

AnnuityDen ==
  XTimes(XTimes(IF LoanMonths > 0
                THEN XSub(XPow(LoanGrowth1200, LoanMonths), XPow(XInt(1200), LoanMonths))
                ELSE XSub(XPow(XInt(1200), 0 - LoanMonths),
                          XPow(LoanGrowth1200, 0 - LoanMonths)),
                1200), 100)

\* C7: with yearlyRate = 0, and with tenorYears = 0 at every rate, the result has
\* monthlyPayment = 0, totalInterest = 0 and totalPayment = 0.
C7_DegenerateLoan ==
  (KPRDone /\ (XSign(kprArgs.yearlyRate) = 0 \/ XSign(kprArgs.tenorYears) = 0))
    => /\ kprResult.monthlyPayment = FZero
       /\ kprResult.totalInterest = FZero
       /\ kprResult.totalPayment = FZero

\* a zero-rate loan of a positive principal over a positive tenor has been computed
C7_Witness ==
  /\ KPRDone
  /\ XSign(kprArgs.yearlyRate) = 0
  /\ XSign(kprArgs.tenorYears) > 0
  /\ XSign(kprResult.principal) > 0
  /\ kprResult.monthlyPayment = FZero

\* C8: whenever monthlyRate # 0 and months # 0, monthlyPayment is the annuity value
\* principal * r * (1+r)^n / ((1+r)^n - 1), r = yearlyRate/100/12, n = tenorYears*12,
\* rounded to the nearest rupiah; monthlyPayment is 0 only when monthlyRate or months
\* is 0.
C8_AnnuityValue ==
  KPRDone
    => /\ (XSign(kprArgs.yearlyRate) # 0 /\ XSign(kprArgs.tenorYears) # 0)
            => IsNearestRatio(kprResult.monthlyPayment, AnnuityNum, AnnuityDen)
       /\ kprResult.monthlyPayment = FZero
            => (XSign(kprArgs.yearlyRate) = 0 \/ XSign(kprArgs.tenorYears) = 0)

\* |x| <= 1
AtMostOneRupiah(x) == XLeq(XAbs(x), XInt(1))

\* C9 as claimed: the returned fields satisfy totalInterest = totalPayment - principal
\* and principal = propertyPrice - downPayment, for every input.
C9_Original ==
  KPRDone
    => /\ XEq(kprResult.totalInterest, XSub(kprResult.totalPayment, kprResult.principal))
       /\ XEq(kprResult.principal, XSub(kprResult.propertyPrice, kprResult.downPayment))

\* C9: in the annuity branch (monthlyRate > 0 and months > 0) the returned totalInterest
\* is within one rupiah of totalPayment - principal; in every other case totalInterest
\* and totalPayment are both 0, whatever the principal; the returned principal is
\* within one rupiah of propertyPrice - downPayment.
C9_TotalsUpToRounding ==
  KPRDone
    => /\ AnnuityCase
            => AtMostOneRupiah(XSub(kprResult.totalInterest,
                                    XSub(kprResult.totalPayment, kprResult.principal)))
       /\ ~AnnuityCase
            => (kprResult.totalInterest = FZero /\ kprResult.totalPayment = FZero)
       /\ AtMostOneRupiah(XSub(kprResult.principal,
                               XSub(kprResult.propertyPrice, kprResult.downPayment)))

\* an annuity has been computed whose rounded fields do not add up
C9_Witness ==
  /\ KPRDone /\ AnnuityCase
  /\ XSign(kprResult.totalInterest) > 0
  /\ ~XEq(kprResult.totalInterest, XSub(kprResult.totalPayment, kprResult.principal))

\* a percentage field below zero: the number 0 is not, nor is a string of zeros
IsNegativePercentage(v) == v.minus /\ v.fixed # <<>>

\* C10: the percentage fields are never negative: effectiveRate is >= 0 and is the
\* number 0 when the taxable income is 0; interestRatio is >= 0 and is the number 0
\* when the principal is 0 or less.
C10_PercentagesNonNegative ==
  /\ PPhDone
       => /\ ~IsNegativePercentage(pphResult.effectiveRate)
          /\ XSign(pphResult.pkp) = 0 => pphResult.effectiveRate = NumberZero
  /\ KPRDone
       => /\ ~IsNegativePercentage(kprResult.interestRatio)
          /\ XSign(LoanPrincipal100) <= 0 => kprResult.interestRatio = NumberZero

(***************************************************************************)
(* Properties of calculateFreelanceRate                                    *)
(***************************************************************************)
FreelanceDone == app = "freelance" /\ pc # "input"

\* the call was calculateFreelanceRate(x, y, 0)
NoHours == FreelanceDone /\ XSign(flArgs.billableHours) = 0

\* the exact sum monthlyExpenses + monthlySavings
ExactTarget == XAdd(flArgs.monthlyExpenses, flArgs.monthlySavings)

AllRatesZero ==
  /\ XSign(flResult.hourlyRate) = 0
  /\ XSign(flResult.dailyRate) = 0
  /\ XSign(flResult.weeklyRate) = 0
  /\ XSign(flResult.minHourlyRate) = 0
  /\ XSign(flResult.maxHourlyRate) = 0

\* C11 as claimed: calculateFreelanceRate(x, y, 0) returns every rate as 0 and
\* targetIncome as x + y.
C11_Original == NoHours => (AllRatesZero /\ XEq(flResult.targetIncome, ExactTarget))

\* C11: calculateFreelanceRate(x, y, 0) returns hourlyRate, dailyRate, weeklyRate,
\* minHourlyRate and maxHourlyRate as 0, and targetIncome as x + y rounded to the
\* nearest integer, which is x + y when that sum is an integer.
C11_ZeroHours ==
  NoHours
    => /\ AllRatesZero
       /\ IsNearest(flResult.targetIncome, ExactTarget, 1)
       /\ XIsInteger(ExactTarget) => XEq(flResult.targetIncome, ExactTarget)

\* a call without hours whose target income is a positive amount with a fraction
C11_Witness ==
  /\ NoHours
  /\ XSign(flResult.targetIncome) > 0
  /\ ~XEq(flResult.targetIncome, ExactTarget)

\* the hourly rate before Math.round: targetIncome / billableHours, or 0
UnroundedHourlyRate ==
  IF XSign(flArgs.billableHours) > 0
  THEN FDiv(FAdd(flArgs.monthlyExpenses, flArgs.monthlySavings), flArgs.billableHours)
  ELSE FZero

\* |x| <= k for a natural k
WithinUnits(x, k) == XLeq(XAbs(x), XInt(k))

\* C12 as claimed: the returned rates are the multiples 8, 40, 0.9 and 1.3 of the
\* returned hourlyRate.
C12_Original ==
  FreelanceDone
    => /\ XEq(flResult.dailyRate, XTimes(flResult.hourlyRate, 8))
       /\ XEq(flResult.weeklyRate, XTimes(flResult.hourlyRate, 40))
       /\ XEq(XTimes(flResult.minHourlyRate, 10), XTimes(flResult.hourlyRate, 9))
       /\ XEq(XTimes(flResult.maxHourlyRate, 10), XTimes(flResult.hourlyRate, 13))

\* C12: every returned rate is the multiple (1, 8, 40, 0.9, 1.3) of the unrounded
\* hourly rate, rounded to the nearest integer on its own; dailyRate, weeklyRate,
\* minHourlyRate and maxHourlyRate are within 4, 20, 0.9 and 1.1 of the multiples of
\* the returned hourlyRate.
C12_RatesFromUnrounded ==
  FreelanceDone
    => /\ IsNearest(flResult.hourlyRate, UnroundedHourlyRate, 1)
       /\ IsNearest(flResult.dailyRate, XTimes(UnroundedHourlyRate, 8), 1)
       /\ IsNearest(flResult.weeklyRate, FMul(UnroundedHourlyRate, F(40)), 1)
       /\ IsNearest(flResult.minHourlyRate, FMul(UnroundedHourlyRate, MinBuffer), 1)
       /\ IsNearest(flResult.maxHourlyRate, FMul(UnroundedHourlyRate, MaxBuffer), 1)
       /\ WithinUnits(XSub(flResult.dailyRate, XTimes(flResult.hourlyRate, 8)), 4)
       /\ WithinUnits(XSub(flResult.weeklyRate, XTimes(flResult.hourlyRate, 40)), 20)
       /\ WithinUnits(XSub(XTimes(flResult.minHourlyRate, 10),
                           XTimes(flResult.hourlyRate, 9)), 9)
       /\ WithinUnits(XSub(XTimes(flResult.maxHourlyRate, 10),
                           XTimes(flResult.hourlyRate, 13)), 11)

\* a result whose hourly rate had a fraction: dailyRate is not 8 * hourlyRate
C12_Witness ==
  /\ FreelanceDone
  /\ XSign(flResult.hourlyRate) > 0
  /\ ~XEq(flResult.dailyRate, XTimes(flResult.hourlyRate, 8))

(***************************************************************************)
(* Properties of the engine as a whole                                     *)
(***************************************************************************)
\* the cells of the heap reachable from the object a call returned
Reachable(c) ==
  IF "brackets" \in DOMAIN heap[c.ref].fields
  THEN {c.ref, heap[c.ref].fields.brackets.ref}
  ELSE {c.ref}

\* C13: the engine's functions are pure: two calls of one function with identical
\* arguments return identical results whatever was called in between, no result
\* shares an object or array with the result of another call, and no later call
\* changes what an earlier call returned.
C13_Pure ==
  /\ \A i \in 1..Len(callLog) : Deref(heap, callLog[i].ref) = callLog[i].returned
  /\ \A i \in 1..Len(callLog) : \A j \in (i + 1)..Len(callLog) :
       /\ Reachable(callLog[i]) \cap Reachable(callLog[j]) = {}
       /\ (callLog[i].fn = callLog[j].fn /\ callLog[i].args = callLog[j].args)
            => callLog[i].returned = callLog[j].returned

\* calculatePPh21 has been called twice on the same arguments, with a call of another
\* function in between, and the brackets list is not empty
C13_Witness ==
  /\ Len(callLog) = 3
  /\ callLog[1].fn = "calculatePPh21"
  /\ callLog[2].fn # "calculatePPh21"
  /\ callLog[3].fn = "calculatePPh21"
  /\ callLog[1].args = callLog[3].args
  /\ callLog[1].returned.brackets # <<>>

(***************************************************************************)
(* Properties of the calculator controller                                 *)
(***************************************************************************)
\* what a field is to hand to the engine: its parsed value, the fallback
\* only when there is nothing to parse
ParsedOrFallback(f, fallback) ==
  IF ParseFloat(fieldValue[f]).nan THEN fallback ELSE ParseFloat(fieldValue[f]).value

\* C14: whenever a handler has called the engine, every argument is the parsed value
\* of its field, 0 included, and the fallback (0 for the amounts, ptkp 54000000, down
\* payment 20, rate 8.5, tenor 15, billable hours 120) only for a field whose value
\* is empty or not a number.
C14_ParsedValuesReachEngine ==
  /\ (app = "pph-tab" /\ pc = "called")
       => /\ pphArgs.grossIncome = ParsedOrFallback("pph-gross", F(0))
          /\ pphArgs.ptkp = ParsedOrFallback("pph-ptkp", F(54000000))
  /\ (app = "kpr-tab" /\ pc = "called")
       => /\ kprArgs.propertyPrice = ParsedOrFallback("kpr-price", F(0))
          /\ kprArgs.dpPercent = ParsedOrFallback("kpr-dp", F(20))
          /\ kprArgs.yearlyRate = ParsedOrFallback("kpr-rate", FDiv(F(85), F(10)))
          /\ kprArgs.tenorYears = ParsedOrFallback("kpr-tenor", F(15))
  /\ (app = "freelance-tab" /\ pc = "called")
       => /\ flArgs.monthlyExpenses = ParsedOrFallback("fl-expense", F(0))
          /\ flArgs.monthlySavings = ParsedOrFallback("fl-savings", F(0))
          /\ flArgs.billableHours = ParsedOrFallback("fl-hours", F(120))

(***************************************************************************)
(* Properties of the theme controllers                                     *)
(***************************************************************************)
\* the theme theme-toggle.js has applied to the html element
AppliedTheme == IF htmlDark THEN "dark" ELSE "light"

\* the user has clicked a toggle button since the first visit
Toggled ==
  \E i \in 1..Len(themeLog) : themeLog[i] \in {"theme-toggle", "theme-toggle-mobile"}

\* C15: on a page with theme-toggle.js, through clicks on either button, system
\* changes and reloads, a stored theme is the applied theme ('dark' is on html iff
\* 'dark' is stored), every click flips the applied theme, and a reload applies the
\* stored theme.
C15_StoredIsApplied ==
  /\ [](storedTheme # "none" => storedTheme = AppliedTheme)
  /\ [][ClickThemeToggle => htmlDark' # htmlDark]_vars
  /\ [][(ReloadPage /\ storedTheme # "none") => (htmlDark' <=> storedTheme = "dark")]_vars

\* a click, then a system change, then a reload, with the system preferring the
\* theme that is not the stored one
C15_Witness ==
  /\ listeners = <<"theme-toggle.js">>
  /\ themeLog = <<"theme-toggle-mobile", "change", "reload">>
  /\ storedTheme = "light"
  /\ ~prefersLight

\* C16: on a page with theme-toggle.js, before any click the applied theme is the
\* system's (light iff the media query matches), and a system change leaves the
\* applied theme alone once the user has clicked or a theme is stored.
C16_SystemChangeOnlyUnstored ==
  /\ [](~Toggled => (htmlDark <=> ~prefersLight))
  /\ [][(SystemThemeChange /\ (Toggled \/ storedTheme # "none"))
          => htmlDark' = htmlDark]_vars

\* after a click the system has changed, and the applied theme is not the system's
C16_Witness ==
  /\ listeners = <<"theme-toggle.js">>
  /\ Len(themeLog) >= 2
  /\ themeLog[1] \in {"theme-toggle", "theme-toggle-mobile"}
  /\ themeLog[Len(themeLog)] = "change"
  /\ (htmlDark <=> prefersLight)

\* C17: on a page with both scripts, after any clicks the controllers agree (body
\* has 'light-theme' iff html has no 'dark') and a stored theme is that theme.
C17_ControllersAgree ==
  /\ bodyLight <=> ~htmlDark
  /\ storedTheme # "none" => storedTheme = AppliedTheme

(***************************************************************************)
(* Properties of showSkeleton and hideSkeleton                             *)
(***************************************************************************)
\* C18: once every timer has fired, a container whose last call was showSkeleton
\* has 'content-loading' and exactly one overlay, and one whose last call was
\* hideSkeleton has neither an overlay nor 'content-loading'.
C18_SettledContainer ==
  (timers = 0 /\ skeletonLog # <<>>)
    => IF skeletonLog[Len(skeletonLog)] = "showSkeleton"
       THEN container.contentLoading /\ container.overlays = 1
       ELSE ~container.contentLoading /\ container.overlays = 0

====
